---- MODULE Spec2Model ----
(***************************************************************************)
(* eac2json: the cursor (Node), the ledger (Ledger), the row and "more     *)
(* details" extractors (row, more, more1) and the row loop of main of      *)
(* src/eac2json.go, lines 1-465, over bounded history documents.           *)
(*                                                                         *)
(* An html.Node is a record [type, data, kids]; a *html.Node is the path   *)
(* of child indices leading to it from the History anchor (the root, <<>>),*)
(* and Nil is the nil pointer.  A Go string read from a text node is a     *)
(* sequence of chunks, " " being white space; strings.TrimSpace turns it   *)
(* into the string the program stores.                                     *)
(***************************************************************************)
EXTENDS Integers, Sequences, FiniteSets, TLC

\* Bound: the number of row groups (a primary row and its details row, if
\* any) in the history table of a document.
MaxGroups == 2

VARIABLES page, n, headerVals, header, l, out, pc, built, call

vars == <<page, n, headerVals, header, l, out, pc, built, call>>

----------------------------------------------------------------------------
(* Bind(v, F) is F(v) with v evaluated once: TLC evaluates an operator's   *)
(* argument anew at each place the operator's body uses it.                *)

Bind(v, F(_)) == CHOOSE r \in {F(x) : x \in {v}} : TRUE

----------------------------------------------------------------------------
(* html.Node: a record [type, data, kids], kids the sequence of children.  *)

Elem(tag, kids) == [type |-> "elem", data |-> tag, kids |-> kids]

TextNode(chunks) == [type |-> "text", data |-> chunks, kids |-> <<>>]

One(a) == <<a>>

Space == " "

----------------------------------------------------------------------------
(* The input: saved history pages, as html.Parse hands them to main.  The  *)
(* shapes are the ones the navigation of main, row, more and more1 walks.  *)
(* A page is described by its header row and its row groups; doc is its    *)
(* tree, which the operators on nodes take as their first argument t.      *)

Actions ==
    {"Deposit", "Forced Quick Sell", "Lapse", "Exer and Hold", "Sale", "Journal",
     "Forced Disbursement"}

\* The header rows of the history table: the page's columns, and a table whose
\* columns stand in another order and lack Description.
HeaderRows ==
    {<<"Date", "Description", "Action", "Symbol", "Quantity">>,
     <<"Action", "Symbol", "Date">>}

\* <td><label> text </label></td>
LabelCell(text) ==
    Elem("td", One(Elem("label", One(TextNode(<<Space, text, Space>>)))))

HeaderRow(labels) == Elem("tr", [i \in DOMAIN labels |-> LabelCell(labels[i])])

\* The text of the cell of group g under the column labelled label.
CellValue(label, action, g) ==
    IF label = "Action" THEN action ELSE label \o ToString(g)

\* A data row of `width` cells.
DataRow(labels, action, g, width) ==
    Elem("tr", [i \in 1..width |-> LabelCell(CellValue(labels[i], action, g))])

ActionColumn(labels) == CHOOSE i \in DOMAIN labels : labels[i] = "Action"

\* The width of a primary row: every column, the columns up to Action only,
\* or no cell at all.
Width(labels, w) ==
    CASE w = "full"  -> Len(labels)
      [] w = "short" -> ActionColumn(labels)
      [] w = "none"  -> 0

\* The div/div/table/table/tbody chain inside a "more details" row.
DetailsShell(rows) ==
    Elem("tr", One(Elem("td", One(Elem("div", One(Elem("div",
        <<Elem("table", <<>>), TextNode(<<Space>>),
          Elem("table", One(Elem("tbody", rows)))>>)))))))

\* A header cell of a details sub-table: <td><b>label</b></td>; an empty
\* label is a cell without <b>.
BoldCell(label) ==
    IF label = "" THEN Elem("td", <<>>)
    ELSE Elem("td", One(Elem("b", One(TextNode(<<label, Space>>)))))

SubValue(g, s, i) == "v" \o ToString(g) \o "." \o ToString(s) \o "." \o ToString(i)

\* A sub-row of `width` plain cells.
SubRow(g, s, width) ==
    Elem("tr", [i \in 1..width |-> Elem("td", One(TextNode(<<Space, SubValue(g, s, i)>>)))])

\* Variant A (more): a header row, then sub-rows of the given widths.
DetailsA(headers, widths, g) ==
    DetailsShell([s \in 1..(Len(widths) + 1) |->
        IF s = 1 THEN Elem("tr", [i \in DOMAIN headers |-> BoldCell(headers[i])])
        ELSE SubRow(g, s - 1, widths[s - 1])])

\* A cell of variant B: key text, <b>, value text.
PairCell(key, value) ==
    Elem("td", <<TextNode(<<key, Space>>), Elem("b", <<>>), TextNode(<<Space, value>>)>>)

\* Variant B (more1): rows of key/value cells.
DetailsB(keys, g) ==
    DetailsShell([r \in DOMAIN keys |->
        Elem("tr", [i \in DOMAIN keys[r] |-> PairCell(keys[r][i], SubValue(g, r, i))])])

\* The kinds of details rows: variant A with its header labels and the
\* widths of its sub-rows, variant B with the keys of its rows, and X, a row
\* without the sub-tables.
KindsA == {"A0", "A1", "A2", "Ac", "Ad"}

KindHeaders(kind) ==
    CASE kind \in {"A0", "A1"} -> <<"Price", "Shares">>
      [] kind = "A2" -> <<"Price", "Shares", "", "">>
      [] kind \in {"Ac", "Ad"} -> <<"Date", "Price">>

KindWidths(kind) ==
    CASE kind = "A0" -> <<1>>
      [] kind \in {"A1", "Ad"} -> <<2>>
      [] kind = "A2" -> <<3, 1, 2>>
      [] kind = "Ac" -> <<2, 2>>

KeysB == << <<"Net Shares Deposited", "">>, <<"Date">> >>

DetailsRow(kind, g) ==
    CASE kind \in KindsA -> DetailsA(KindHeaders(kind), KindWidths(kind), g)
      [] kind = "B"  -> DetailsB(KeysB, g)
      [] kind = "X"  -> Elem("tr", One(Elem("td", One(Elem("div", <<>>)))))

\* A row group: a primary row [action, width] and its details row, if any.
Group(action, width, details) == [action |-> action, width |-> width, details |-> details]

Groups ==
    {Group(a, "full", "none") :
        a \in {"Deposit", "Lapse", "Exer and Hold", "Journal", "Forced Disbursement", "Bogus"}}
    \cup {Group("Deposit", "short", d) : d \in {"A1", "A2"}}
    \cup {Group("Exer and Hold", "short", "A1"), Group("Journal", "none", "none")}
    \cup {Group("Deposit", "full", d) : d \in {"A0", "A1", "A2", "Ad"}}
    \cup {Group("Exer and Hold", "full", d) : d \in {"A0", "A1", "A2", "Ac", "X"}}
    \cup {Group("Forced Quick Sell", "full", "A1"), Group("Sale", "full", "A2")}
    \cup {Group("Lapse", "full", d) : d \in {"B", "X"}}
    \cup {Group(a, "full", "A1") : a \in {"Journal", "Forced Disbursement"}}

\* The rows of the groups gs, in order: [g, details], details = "none" for
\* the primary row of group g.
RECURSIVE GroupRows(_, _)
GroupRows(gs, g) ==
    IF g > Len(gs) THEN <<>>
    ELSE <<[g |-> g, details |-> "none"]>>
         \o (IF gs[g].details = "none" THEN <<>> ELSE <<[g |-> g, details |-> gs[g].details]>>)
         \o GroupRows(gs, g + 1)

TableRow(labels, gs, r) ==
    IF r.details = "none"
    THEN DataRow(labels, gs[r.g].action, r.g, Width(labels, gs[r.g].width))
    ELSE DetailsRow(r.details, r.g)

\* The table body: the header row, white space, the rows of the groups.
TableBody(labels, gs) ==
    Bind(GroupRows(gs, 1), LAMBDA rows :
        Elem("tbody", [i \in 1..(Len(rows) + 2) |->
            IF i = 1 THEN HeaderRow(labels)
            ELSE IF i = 2 THEN TextNode(<<Space>>)
            ELSE TableRow(labels, gs, rows[i - 2])]))

\* The History anchor and the table/tbody/tr/tr/td/table/tbody chain under it.
Anchor(cell) ==
    Elem("a", One(Elem("table", One(Elem("tbody",
        <<Elem("tr", <<>>), TextNode(<<Space>>), Elem("tr", One(Elem("td", cell)))>>)))))

Page(kind, labels, gs) == [kind |-> kind, labels |-> labels, groups |-> gs]

\* Pages with the history table, and pages whose inner cell is empty, holds
\* only text, or holds a table without rows.
BrokenPages == {Page(k, <<>>, <<>>) : k \in {"empty cell", "text cell", "no rows"}}

GroupSeqs == UNION {[1..k -> Groups] : k \in 0..MaxGroups}

Pages == {Page("history", labels, gs) : labels \in HeaderRows, gs \in GroupSeqs} \cup BrokenPages

\* A small tree for a client of the cursor alone: two rows, the first with
\* a labelled cell, text and an empty cell, white space between the rows.
CursorTree ==
    Elem("tbody",
        <<Elem("tr", <<Elem("td", One(Elem("label", One(TextNode(<<Space, "x", Space>>))))),
                       TextNode(<<"y">>),
                       Elem("td", <<>>)>>),
          TextNode(<<Space>>),
          Elem("tr", <<>>)>>)

Document(pg) ==
    CASE pg.kind = "cursor" -> CursorTree
      [] pg.kind = "details" -> DetailsA(pg.labels, pg.groups, 1)
      [] pg.kind = "history" ->
            Anchor(One(Elem("table", One(TableBody(pg.labels, pg.groups)))))
      [] pg.kind = "empty cell" -> Anchor(<<>>)
      [] pg.kind = "text cell" -> Anchor(One(TextNode(<<Space>>)))
      [] pg.kind = "no rows" -> Anchor(One(Elem("table", One(Elem("tbody", <<>>)))))

\* The tree of the page.
doc == Document(page)

----------------------------------------------------------------------------
(* *html.Node: the path of child indices from the History anchor (<<>>);   *)
(* Nil is the nil pointer.                                                 *)

Nil == <<0>>

\* The node i - 1 steps down the path p from t.
RECURSIVE Subtree(_, _, _)
Subtree(t, p, i) == IF i > Len(p) THEN t ELSE Subtree(t.kids[p[i]], p, i + 1)

NodeAt(t, p) == Subtree(t, p, 1)

FirstChild(t, p) == IF Len(NodeAt(t, p).kids) > 0 THEN Append(p, 1) ELSE Nil

Parent(p) == SubSeq(p, 1, Len(p) - 1)

NextSibling(t, p) ==
    IF p = <<>> THEN Nil
    ELSE IF p[Len(p)] < Len(NodeAt(t, Parent(p)).kids)
         THEN Append(Parent(p), p[Len(p)] + 1)
         ELSE Nil

IsElement(t, p, tag) == NodeAt(t, p).type = "elem" /\ NodeAt(t, p).data = tag

----------------------------------------------------------------------------
(* strings *)

RECURSIVE TrimLeft(_)
TrimLeft(t) == IF t # <<>> /\ Head(t) = Space THEN TrimLeft(Tail(t)) ELSE t

RECURSIVE TrimRight(_)
TrimRight(t) ==
    IF t # <<>> /\ t[Len(t)] = Space THEN TrimRight(SubSeq(t, 1, Len(t) - 1)) ELSE t

RECURSIVE Concat(_)
Concat(t) == IF t = <<>> THEN "" ELSE Head(t) \o Concat(Tail(t))

\* strings.TrimSpace: leading and trailing white space removed.
TrimSpace(t) == Concat(TrimRight(TrimLeft(t)))

----------------------------------------------------------------------------
(* type Node: the cursor.  err = "" is the nil error; stack is <<>> (nil)  *)
(* or <<m>>, a pointer to the saved copy m.                                *)

\* peak is a history field: the largest number of saved copies that were
\* ever outstanding at once on this cursor.
NewNode(root) == [Node |-> root, next |-> root, err |-> "", stack |-> <<>>, peak |-> 0]

Ok(c) == c.err = ""

Err(c) == c.err

RECURSIVE FindSibling(_, _, _)
FindSibling(t, p, tag) ==
    IF p = Nil THEN Nil
    ELSE IF IsElement(t, p, tag) THEN p
    ELSE FindSibling(t, NextSibling(t, p), tag)

\* Sibling without the test n.err != nil of line 66.
SiblingNoGuard(t, c, tag) ==
    Bind(c, LAMBDA x :
        Bind(FindSibling(t, x.next, tag), LAMBDA f :
            IF f # Nil
            THEN [x EXCEPT !.Node = f, !.next = NextSibling(t, f)]
            ELSE [x EXCEPT !.err = "no sibling tag " \o tag]))

\* Sibling that resumes the next search at the node it found.
SiblingRescan(t, c, tag) ==
    Bind(c, LAMBDA x :
        IF x.err # "" THEN x
        ELSE Bind(FindSibling(t, x.next, tag), LAMBDA f :
                 IF f # Nil
                 THEN [x EXCEPT !.Node = f, !.next = f]
                 ELSE [x EXCEPT !.err = "no sibling tag " \o tag]))

Sibling(t, c, tag) ==
    Bind(c, LAMBDA x :
        IF x.err # "" THEN x
        ELSE Bind(FindSibling(t, x.next, tag), LAMBDA f :
                 IF f # Nil
                 THEN [x EXCEPT !.Node = f, !.next = NextSibling(t, f)]
                 ELSE [x EXCEPT !.err = "no sibling tag " \o tag]))

Child(t, c, tag) ==
    Bind(c, LAMBDA x :
        IF x.err # "" THEN x
        ELSE Sibling(t, [x EXCEPT !.Node = FirstChild(t, x.Node), !.next = FirstChild(t, x.Node)],
                     tag))

RECURSIVE FirstTextBelow(_, _)
FirstTextBelow(t, p) ==
    IF p = Nil THEN <<>>
    ELSE IF NodeAt(t, p).type = "text" THEN NodeAt(t, p).data
    ELSE FirstTextBelow(t, FirstChild(t, p))

ChildText(t, c) == Bind(c, LAMBDA x : IF x.err # "" THEN <<>> ELSE FirstTextBelow(t, x.Node))

RECURSIVE FirstTextAfter(_, _)
FirstTextAfter(t, p) ==
    IF p = Nil THEN <<>>
    ELSE IF NodeAt(t, p).type = "text" THEN NodeAt(t, p).data
    ELSE FirstTextAfter(t, NextSibling(t, p))

Text(t, c) == Bind(c, LAMBDA x : IF x.err # "" THEN <<>> ELSE FirstTextAfter(t, x.Node))

\* The number of saved copies reachable through n.stack.
RECURSIVE Depth(_)
Depth(c) == IF c.stack = <<>> THEN 0 ELSE 1 + Depth(c.stack[1])

Push(c) ==
    Bind(c, LAMBDA x : [x EXCEPT !.stack = <<x>>,
                                 !.peak = IF Depth(x) + 1 > x.peak THEN Depth(x) + 1 ELSE x.peak])

\* Pop that restores the position and the stack but keeps the error.
PopKeepsError(c) == [c.stack[1] EXCEPT !.err = c.err, !.peak = c.peak]

\* Pop that restores the position and the error but keeps the saved copy.
PopKeepsStack(c) == [c.stack[1] EXCEPT !.stack = c.stack, !.peak = c.peak]

Pop(c) == [c.stack[1] EXCEPT !.peak = c.peak]

----------------------------------------------------------------------------
(* maps: a map[string]string is a function on a finite set of strings *)

EmptyMap == [k \in {} |-> ""]

Put(m, k, v) ==
    Bind(m, LAMBDA f : [x \in DOMAIN f \cup {k} |-> IF x = k THEN v ELSE f[x]])

\* for k, v := range src { dst[k] = v }
PutAll(dst, src) ==
    Bind(<<dst, src>>, LAMBDA a :
        [x \in DOMAIN a[1] \cup DOMAIN a[2] |-> IF x \in DOMAIN a[2] THEN a[2][x] ELSE a[1][x]])

----------------------------------------------------------------------------
(* func row: extract a regular data row *)

\* The loop of lines 179-191, entered with the cursor after n.Child("td") or
\* n.Sibling("td").
RECURSIVE rowLoop(_, _, _)
rowLoop(t, c, values) ==
    IF ~Ok(c) THEN [n |-> c, values |-> values, err |-> ""]
    ELSE Bind(Child(t, Push(c), "label"), LAMBDA c1 :
            IF ~Ok(c1)
            THEN [n |-> Pop(c1), values |-> <<>>, err |-> Err(c1)]
            ELSE Bind(<<Sibling(t, Pop(c1), "td"), Append(values, TrimSpace(ChildText(t, c1)))>>,
                      LAMBDA a : rowLoop(t, a[1], a[2])))

row(t, c) ==
    Bind(rowLoop(t, Child(t, Push(c), "td"), <<>>), LAMBDA r : [r EXCEPT !.n = Pop(r.n)])

----------------------------------------------------------------------------
(* func more: extract a "more details" row set *)

\* lines 201-206 (and 259-264)
moreDescend(t, c) ==
    Child(t, Sibling(t, Child(t, Child(t, Child(t, Child(t, c, "td"), "div"), "div"), "table"), "table"),
          "tbody")

\* The loop of lines 218-223.
RECURSIVE moreHeaders(_, _, _)
moreHeaders(t, c, headers) ==
    IF ~Ok(c) THEN [n |-> c, headers |-> headers]
    ELSE Bind(Child(t, Push(c), "b"), LAMBDA c1 :
            Bind(<<Sibling(t, Pop(c1), "td"), Append(headers, TrimSpace(ChildText(t, c1)))>>,
                 LAMBDA a : moreHeaders(t, a[1], a[2])))

\* The headers as they were read, trailing empty ones included.
stripNothing(headers) == headers

\* lines 226-228
RECURSIVE stripTrailing(_)
stripTrailing(headers) ==
    IF Len(headers) > 0 /\ headers[Len(headers)] = ""
    THEN stripTrailing(SubSeq(headers, 1, Len(headers) - 1))
    ELSE headers

\* The loop of lines 239-242; headers[i] of the code is headers[i + 1] here.
RECURSIVE moreCells(_, _, _, _, _)
moreCells(t, c, headers, i, m) ==
    IF Ok(c) /\ i < Len(headers)
    THEN Bind(<<Sibling(t, c, "td"), Put(m, headers[i + 1], TrimSpace(ChildText(t, c)))>>,
              LAMBDA a : moreCells(t, a[1], headers, i + 1, a[2]))
    ELSE [n |-> c, i |-> i, m |-> m]

\* The row loop without the test i == len(headers) of line 244.
RECURSIVE moreRowsAcceptAll(_, _, _, _)
moreRowsAcceptAll(t, c, headers, entries) ==
    IF ~Ok(c) THEN [n |-> c, entries |-> entries]
    ELSE Bind(moreCells(t, Child(t, Push(c), "td"), headers, 0, EmptyMap), LAMBDA r :
            Bind(<<Sibling(t, Pop(r.n), "tr"), Append(entries, r.m)>>,
                 LAMBDA a : moreRowsAcceptAll(t, a[1], headers, a[2])))

\* The loop of lines 232-249.
RECURSIVE moreRows(_, _, _, _)
moreRows(t, c, headers, entries) ==
    IF ~Ok(c) THEN [n |-> c, entries |-> entries]
    ELSE Bind(moreCells(t, Child(t, Push(c), "td"), headers, 0, EmptyMap), LAMBDA r :
            Bind(<<Sibling(t, Pop(r.n), "tr"),
                   IF r.i = Len(headers) THEN Append(entries, r.m) ELSE entries>>,
                 LAMBDA a : moreRows(t, a[1], headers, a[2])))

more(t, c) ==
    Bind(Child(t, moreDescend(t, Push(c)), "tr"), LAMBDA c1 :
        IF ~Ok(c1)
        THEN [n |-> Pop(c1), entries |-> <<>>, err |-> Err(c1)]
        ELSE Bind(moreHeaders(t, Child(t, Push(c1), "td"), <<>>), LAMBDA h :
                Bind(moreRows(t, Sibling(t, Pop(h.n), "tr"), stripTrailing(h.headers), <<>>),
                     LAMBDA r : [n |-> Pop(r.n), entries |-> r.entries, err |-> ""])))

----------------------------------------------------------------------------
(* func more1: extract the second style of "more details" row *)

\* The loop of lines 275-285.
RECURSIVE more1Cells(_, _, _)
more1Cells(t, c, entries) ==
    IF ~Ok(c) THEN [n |-> c, entries |-> entries]
    ELSE Bind(<<TrimSpace(ChildText(t, c)), Child(t, Push(c), "b")>>, LAMBDA kc :
            Bind(<<Sibling(t, Pop(kc[2]), "td"),
                   IF kc[1] # "" THEN Put(entries, kc[1], TrimSpace(Text(t, kc[2])))
                   ELSE entries>>,
                 LAMBDA a : more1Cells(t, a[1], a[2])))

\* The loop of lines 272-288.
RECURSIVE more1Rows(_, _, _)
more1Rows(t, c, entries) ==
    IF ~Ok(c) THEN [n |-> c, entries |-> entries]
    ELSE Bind(more1Cells(t, Child(t, Push(c), "td"), entries), LAMBDA r :
            more1Rows(t, Sibling(t, Pop(r.n), "tr"), r.entries))

more1(t, c) ==
    Bind(moreDescend(t, Push(c)), LAMBDA c1 :
        IF ~Ok(c1)
        THEN [n |-> Pop(c1), entries |-> EmptyMap, err |-> Err(c1)]
        ELSE Bind(more1Rows(t, Child(t, c1, "tr"), EmptyMap), LAMBDA r :
                [n |-> Pop(r.n), entries |-> r.entries, err |-> ""]))

----------------------------------------------------------------------------
(* type Ledger.  e is <<>> (the nil map of the zero Ledger) or <<m>>. *)

ZeroLedger == [entries |-> <<>>, e |-> <<>>]

\* len(l.e); the length of a nil map is 0.
LenE(lg) == Bind(lg, LAMBDA x : IF x.e = <<>> THEN 0 ELSE Cardinality(DOMAIN x.e[1]))

\* Next with the append at the front of l.entries.
LedgerNextFront(lg) ==
    Bind(lg, LAMBDA x :
        [entries |-> IF LenE(x) > 0 THEN <<x.e[1]>> \o x.entries ELSE x.entries,
         e       |-> <<EmptyMap>>])

\* Next without the test len(l.e) > 0.
LedgerNextAlways(lg) ==
    Bind(lg, LAMBDA x :
        [entries |-> Append(x.entries, IF x.e = <<>> THEN EmptyMap ELSE x.e[1]),
         e       |-> <<EmptyMap>>])

LedgerNext(lg) ==
    Bind(lg, LAMBDA x :
        [entries |-> IF LenE(x) > 0 THEN Append(x.entries, x.e[1]) ELSE x.entries,
         e       |-> <<EmptyMap>>])

\* l.e[k] = v; an assignment to an entry of a nil map panics (WriteToNil).
WriteToNil(lg) == lg.e = <<>>

LedgerWrite(lg, k, v) == Bind(lg, LAMBDA x : [x EXCEPT !.e = <<Put(x.e[1], k, v)>>])

\* for k, v := range m { l.Write(k, v) }
LedgerWriteAll(lg, m) == Bind(lg, LAMBDA x : [x EXCEPT !.e = <<PutAll(x.e[1], m)>>])

----------------------------------------------------------------------------
(* main, lines 350-358 and 369: the header map and the indexing of a row.  *)
(* Go indexes from 0; values[i] is the (i+1)-th element here.              *)

coreKeys == <<"Date", "Description", "Action", "Symbol">>

Range(s) == {s[i] : i \in DOMAIN s}

Max(S) == CHOOSE x \in S : \A y \in S : y <= x

\* for i := range headerVals { header[headerVals[i]] = i }
makeHeader(vals) ==
    [k \in Range(vals) |-> Max({i - 1 : i \in {j \in DOMAIN vals : vals[j] = k}})]

\* header[k]: a missing key reads as the zero value 0.
Lookup(hdr, k) == IF k \in DOMAIN hdr THEN hdr[k] ELSE 0

\* values[i] is in range.
InRange(values, i) == i < Len(values)

At(values, i) == values[i + 1]

----------------------------------------------------------------------------
(* main, lines 369-453: the cases of the switch on values[header["Action"]].*)
(* Each yields what the case leaves behind: status "ok" (the loop goes on),*)
(* "fatal" (log.Fatal) or "panic" (an index out of range); c and lg are    *)
(* the cursor and the ledger after it, recs the entries it built, in the   *)
(* order it built them, each with its place (sub of `of`) in the fan-out.  *)
(* partial holds the fields of which a panic in a range over a map may     *)
(* have written any subset (the order of the range is not fixed).          *)

Result(status, c, lg, recs) ==
    [status |-> status, n |-> c, l |-> lg, recs |-> recs, partial |-> EmptyMap]

Built(lg, sub, of) == [sub |-> sub, of |-> of, m |-> lg.e[1]]

\* for k, i := range header { l.Write(k, values[i]) }
primaryFields(hdr, values) == [k \in DOMAIN hdr |-> At(values, hdr[k])]

primaryInRange(hdr, values) == \A k \in DOMAIN hdr : InRange(values, hdr[k])

\* The range over header panics at the first index out of range it meets,
\* after l.Next() and the writes of the keys it met before.
primaryPanic(c, lg, hdr, values) ==
    [Result("panic", c, LedgerNext(lg), <<>>) EXCEPT
        !.partial = [k \in {h \in DOMAIN hdr : InRange(values, hdr[h])} |-> At(values, hdr[k])]]

\* case "Lapse", lines 370-385
caseLapse(t, c, lg, hdr, values) ==
    IF ~primaryInRange(hdr, values) THEN primaryPanic(c, lg, hdr, values)
    ELSE Bind(<<LedgerWriteAll(LedgerNext(lg), primaryFields(hdr, values)),
                more1(t, Sibling(t, c, "tr"))>>, LAMBDA a :
            IF a[2].err # "" THEN Result("fatal", a[2].n, a[1], <<>>)
            ELSE Bind(LedgerWriteAll(a[1], a[2].entries), LAMBDA l2 :
                    Result("ok", a[2].n, l2, <<Built(l2, 1, 1)>>)))

\* The Deposit case without the test len(entries) != 1 of line 404: no mapping merges
\* nothing, several merge the first.
caseDepositUnchecked(t, c, lg, hdr, values) ==
    IF ~primaryInRange(hdr, values) THEN primaryPanic(c, lg, hdr, values)
    ELSE Bind(<<LedgerWriteAll(LedgerNext(lg), primaryFields(hdr, values)),
                more(t, Sibling(t, c, "tr"))>>, LAMBDA a :
            IF a[2].err # "" THEN Result("fatal", a[2].n, a[1], <<>>)
            ELSE Bind(IF Len(a[2].entries) = 0 THEN a[1]
                      ELSE LedgerWriteAll(a[1], a[2].entries[1]), LAMBDA l2 :
                    Result("ok", a[2].n, l2, <<Built(l2, 1, 1)>>)))

\* case "Deposit", "Forced Quick Sell", lines 387-410
caseDeposit(t, c, lg, hdr, values) ==
    IF ~primaryInRange(hdr, values) THEN primaryPanic(c, lg, hdr, values)
    ELSE Bind(<<LedgerWriteAll(LedgerNext(lg), primaryFields(hdr, values)),
                more(t, Sibling(t, c, "tr"))>>, LAMBDA a :
            IF a[2].err # "" THEN Result("fatal", a[2].n, a[1], <<>>)
            ELSE IF Len(a[2].entries) # 1 THEN Result("fatal", a[2].n, a[1], <<>>)
            ELSE Bind(LedgerWriteAll(a[1], a[2].entries[1]), LAMBDA l2 :
                    Result("ok", a[2].n, l2, <<Built(l2, 1, 1)>>)))

\* for _, k := range coreKeys { l.Write(k, values[header[k]]) }
coreFields(hdr, values) ==
    [k \in Range(coreKeys) |-> At(values, Lookup(hdr, k))]

coreInRange(hdr, values) == \A k \in Range(coreKeys) : InRange(values, Lookup(hdr, k))

\* The range over coreKeys panics at the first index out of range, after the
\* first l.Next() and the writes of the core keys before it.
corePanic(c, lg, hdr, values) ==
    Result("panic", c,
           LedgerWriteAll(LedgerNext(lg),
               [k \in {coreKeys[i] : i \in {j \in DOMAIN coreKeys :
                          \A h \in 1..j : InRange(values, Lookup(hdr, coreKeys[h]))}}
                  |-> At(values, Lookup(hdr, k))]),
           <<>>)

\* The fan-out with the core keys written after the mapping's fields.
RECURSIVE fanOutCoreLast(_, _, _, _, _)
fanOutCoreLast(lg, core, entries, i, recs) ==
    IF i > Len(entries) THEN [l |-> lg, recs |-> recs]
    ELSE Bind(LedgerWriteAll(LedgerWriteAll(LedgerNext(lg), entries[i]), core), LAMBDA l1 :
            fanOutCoreLast(l1, core, entries, i + 1, Append(recs, Built(l1, i, Len(entries)))))

\* for _, e := range entries { l.Next(); ...; l.Write(k, v) }, lines 431-441
RECURSIVE fanOut(_, _, _, _, _)
fanOut(lg, core, entries, i, recs) ==
    IF i > Len(entries) THEN [l |-> lg, recs |-> recs]
    ELSE Bind(LedgerWriteAll(LedgerWriteAll(LedgerNext(lg), core), entries[i]), LAMBDA l1 :
            fanOut(l1, core, entries, i + 1, Append(recs, Built(l1, i, Len(entries)))))

\* case "Exer and Hold", "Sale", lines 412-441
caseFanOut(t, c, lg, hdr, values) ==
    Bind(more(t, Sibling(t, c, "tr")), LAMBDA d :
        IF d.err # "" THEN Result("fatal", d.n, lg, <<>>)
        ELSE IF Len(d.entries) = 0 THEN Result("fatal", d.n, lg, <<>>)
        ELSE IF ~coreInRange(hdr, values) THEN corePanic(d.n, lg, hdr, values)
        ELSE Bind(fanOut(lg, coreFields(hdr, values), d.entries, 1, <<>>), LAMBDA f :
                Result("ok", d.n, f.l, f.recs)))

\* The Journal case without its n.Sibling("tr").
caseJournalNoSkip(t, c, lg) == Result("ok", c, lg, <<>>)

\* case "Journal", lines 443-445
caseJournal(t, c, lg) == Result("ok", Sibling(t, c, "tr"), lg, <<>>)

\* case "Forced Disbursement", lines 447-449
caseForcedDisbursement(c, lg) == Result("ok", c, lg, <<>>)

\* default, lines 451-452
caseDefault(c, lg) == Result("fatal", c, lg, <<>>)

switch(t, action, c, lg, hdr, values) ==
    CASE action = "Lapse" -> caseLapse(t, c, lg, hdr, values)
      [] action \in {"Deposit", "Forced Quick Sell"} -> caseDeposit(t, c, lg, hdr, values)
      [] action \in {"Exer and Hold", "Sale"} -> caseFanOut(t, c, lg, hdr, values)
      [] action = "Journal" -> caseJournal(t, c, lg)
      [] action = "Forced Disbursement" -> caseForcedDisbursement(c, lg)
      [] OTHER -> caseDefault(c, lg)

----------------------------------------------------------------------------
(* main: the run.  pc is the place in main: "descend" (line 330), "header" *)
(* (line 350), "body" (line 364, the cursor on the row to classify),       *)
(* "output" (line 459), and the ends "done" (main returns), "fatal"        *)
(* (log.Fatal: a message and exit status 1) and "panic" (a run-time panic).*)
(* A run that ends in "fatal" or "panic" keeps the state it ended in.      *)
(* built is a history variable: the entries built so far, with the row     *)
(* that produced each.                                                     *)

NoOutput == [written |-> FALSE, entries |-> <<>>]

\* call is the last call made on the cursor by a client that is not main:
\* the method or function, its tag argument and what it returned.  main's
\* run makes none.
NoCall == [op |-> "", tag |-> "", ret |-> <<>>]

Init ==
    /\ page \in Pages
    /\ n = NewNode(<<>>)
    /\ headerVals = <<>>
    /\ header = EmptyMap
    /\ l = ZeroLedger
    /\ out = NoOutput
    /\ pc = "descend"
    /\ built = <<>>
    /\ call = NoCall

\* lines 331-337
descend(t, c) ==
    Child(t, Child(t, Child(t, Sibling(t, Child(t, Child(t, Child(t, c, "table"), "tbody"), "tr"), "tr"),
                      "td"), "table"), "tbody")

\* lines 331-347: the descent to the table body and its first row.
Descend ==
    /\ pc = "descend"
    /\ \E t \in {doc} : \E c \in {descend(t, n)} : \E c1 \in {Child(t, c, "tr")} :
          IF c.Node = Nil
          THEN pc' = "panic" /\ n' = c
          ELSE IF ~IsElement(t, c.Node, "tbody")
          THEN pc' = "fatal" /\ n' = c
          ELSE IF ~Ok(c1)
          THEN pc' = "fatal" /\ n' = c1
          ELSE pc' = "header" /\ n' = c1
    /\ UNCHANGED <<page, headerVals, header, l, out, built, call>>

\* The loop test n.Ok() of line 362, after n.Sibling("tr").
loopTest(c) == IF Ok(c) THEN "body" ELSE "output"

\* lines 350-362: the header row, the header map, and the loop's first
\* n.Sibling("tr").
ReadHeader ==
    /\ pc = "header"
    /\ \E t \in {doc} : \E r \in {row(t, n)} :
          IF r.err # ""
          THEN /\ pc' = "fatal"
               /\ n' = r.n
               /\ UNCHANGED <<headerVals, header>>
          ELSE /\ headerVals' = r.values
               /\ header' = makeHeader(r.values)
               /\ \E c \in {Sibling(t, r.n, "tr")} : n' = c /\ pc' = loopTest(c)
    /\ UNCHANGED <<page, l, out, built, call>>

\* The entries an iteration built, with the row the cursor stood on.
builtAt(p, recs) ==
    [i \in DOMAIN recs |->
        [row |-> p, sub |-> recs[i].sub, of |-> recs[i].of, m |-> recs[i].m]]

\* lines 364-454: one iteration of the row loop: row(n), the switch on
\* values[header["Action"]], and the loop's n.Sibling("tr") and test.  row's
\* error is fatal (line 366); an Action index out of range panics (line 369).
Classify ==
    /\ pc = "body"
    /\ \E t \in {doc} : \E r \in {row(t, n)} :
          IF r.err # ""
          THEN pc' = "fatal" /\ n' = r.n /\ UNCHANGED <<l, built>>
          ELSE IF ~InRange(r.values, Lookup(header, "Action"))
          THEN pc' = "panic" /\ n' = r.n /\ UNCHANGED <<l, built>>
          ELSE \E res \in {switch(t, At(r.values, Lookup(header, "Action")),
                                  r.n, l, header, r.values)} :
                  IF res.status = "ok"
                  THEN /\ \E c \in {Sibling(t, res.n, "tr")} : n' = c /\ pc' = loopTest(c)
                       /\ l' = res.l
                       /\ built' = built \o builtAt(n.Node, res.recs)
                  ELSE /\ pc' = res.status
                       /\ n' = res.n
                       /\ \E w \in SUBSET DOMAIN res.partial :
                             l' = IF w = {} THEN res.l
                                  ELSE LedgerWriteAll(res.l, [k \in w |-> res.partial[k]])
                       /\ UNCHANGED built
    /\ UNCHANGED <<page, headerVals, header, out, call>>

\* lines 459-464: enc.Encode(l.entries)
Output ==
    /\ pc = "output"
    /\ out' = [written |-> TRUE, entries |-> l.entries]
    /\ pc' = "done"
    /\ UNCHANGED <<page, n, headerVals, header, l, built, call>>

Next == Descend \/ ReadHeader \/ Classify \/ Output

Spec == Init /\ [][Next]_vars

----------------------------------------------------------------------------
(* The rows of the page, as the input lists them: what the properties of   *)
(* the run are stated against.                                             *)

IsPrefix(s, t) == Len(s) <= Len(t) /\ SubSeq(t, 1, Len(s)) = s

\* The rows of the history table below the header row.
Rows == GroupRows(page.groups, 1)

\* A row of the history table is the RowIndex-th child of its tbody; the
\* header row is the first, white space the second.
RowIndex(p) == p[Len(p)]

LastRowIndex == Len(Rows) + 2

RowAt(p) == Rows[RowIndex(p) - 2]

GroupAt(p) == page.groups[RowAt(p).g]

\* p is the primary row of a group with one of `actions`, its Action cell present.
PrimaryRow(p, actions) ==
    /\ RowAt(p).details = "none"
    /\ GroupAt(p).action \in actions
    /\ GroupAt(p).width # "none"

\* The text of the cell of the primary row p in the column labelled k.
PrimaryValue(p, k) == CellValue(k, GroupAt(p).action, RowAt(p).g)

Coalesced == {"Deposit", "Forced Quick Sell", "Lapse"}

FanOutActions == {"Exer and Hold", "Sale"}

\* The labels of a variant A sub-table, without the empty ones.
KindLabels(kind) == SelectSeq(KindHeaders(kind), LAMBDA h : h # "")

\* The sub-rows of a variant A details row that have a cell for every label.
AcceptedRows(kind) ==
    {s \in DOMAIN KindWidths(kind) : KindWidths(kind)[s] >= Len(KindLabels(kind))}

\* The sub-th accepted sub-row.
NthAccepted(kind, sub) ==
    CHOOSE s \in AcceptedRows(kind) : Cardinality({x \in AcceptedRows(kind) : x < s}) = sub - 1

\* The text of the cell of that sub-row under the label k.
DetailValue(p, sub, k) ==
    SubValue(RowAt(p).g, NthAccepted(GroupAt(p).details, sub),
             CHOOSE i \in DOMAIN KindHeaders(GroupAt(p).details) :
                 KindHeaders(GroupAt(p).details)[i] = k)

\* What the details extractor yields for the row after the primary row the
\* cursor c stands on: the number of mappings of variant A (-1: an error).
MappingCount(t, c) ==
    Bind(more(t, Sibling(t, c, "tr")), LAMBDA d : IF d.err # "" THEN -1 ELSE Len(d.entries))

\* The details row after the primary row at c is structurally valid for
\* `action` (and yields exactly one mapping, for Deposit and Forced Quick Sell).
ValidDetails(t, c, action) ==
    IF action = "Lapse" THEN more1(t, Sibling(t, c, "tr")).err = ""
    ELSE MappingCount(t, c) = 1

DetailsMapping(t, c, action) ==
    IF action = "Lapse" THEN more1(t, Sibling(t, c, "tr")).entries
    ELSE more(t, Sibling(t, c, "tr")).entries[1]

Aborted == {"fatal", "panic"}

----------------------------------------------------------------------------
(* C1: when the run reaches the end of the input and completes, the        *)
(* emitted array contains the record built for the last record-producing   *)
(* row.  The code violates it: main never calls l.Next() after the loop,   *)
(* so the last entry built stays in l.e.                                   *)

C1_LastEntryEmitted ==
    (pc = "done" /\ built # <<>>)
        => \E i \in DOMAIN out.entries : out.entries[i] = built[Len(built)].m

----------------------------------------------------------------------------
(* C2: order preservation.  The i-th committed entry is the i-th entry     *)
(* built, the entries are built in the order of their top-level rows and,  *)
(* within a fan-out row, of their accepted sub-rows; the output is the     *)
(* committed sequence; and a step only ever extends l.entries at its end.  *)

Before(a, b) ==
    \/ RowIndex(a.row) < RowIndex(b.row)
    \/ a.row = b.row /\ a.sub < b.sub

InBuiltOrder(entries) ==
    /\ Len(entries) <= Len(built)
    /\ \A i \in DOMAIN entries : entries[i] = built[i].m

C2_OrderPreserved ==
    /\ [](/\ InBuiltOrder(l.entries)
          /\ InBuiltOrder(out.entries)
          /\ \A i, j \in DOMAIN built : i < j => Before(built[i], built[j])
          /\ out.written => out.entries = l.entries)
    /\ [][IsPrefix(l.entries, l.entries')]_vars

\* A completed run whose output holds two entries.
C2_Witness == pc = "done" /\ Len(out.entries) >= 2

----------------------------------------------------------------------------
(* C3: coalescing.  Classifying a Deposit, Forced Quick Sell or Lapse row  *)
(* whose details row is valid commits the previous entry and builds one    *)
(* entry holding every field of the primary row under its header label and *)
(* every field of the details mapping, the details value winning.  The     *)
(* code violates it for a primary row with fewer cells than the header     *)
(* row: values[i] of line 374 or 396 panics.                               *)

C3_Coalescing ==
    [][\A t \in {doc} :
        (/\ pc = "body"
         /\ PrimaryRow(n.Node, Coalesced)
         /\ ValidDetails(t, n, GroupAt(n.Node).action))
        => /\ pc' \in {"body", "output"}
           /\ l'.entries = (IF LenE(l) > 0 THEN Append(l.entries, l.e[1]) ELSE l.entries)
           /\ l'.e = <<PutAll([k \in Range(page.labels) |-> PrimaryValue(n.Node, k)],
                             DetailsMapping(t, n, GroupAt(n.Node).action))>>
           /\ Len(built') = Len(built) + 1]_vars

----------------------------------------------------------------------------
(* C4: fan-out count.  In the output of a completed run, an Exer and Hold  *)
(* or Sale row that built N entries has exactly N entries.  The code       *)
(* violates it when no record-producing row follows: the last of the N     *)
(* entries is never committed (C1).                                        *)

C4_FanOutCount ==
    pc = "done" =>
        \A j \in DOMAIN built :
            PrimaryRow(built[j].row, FanOutActions) =>
                Cardinality({i \in DOMAIN out.entries :
                                /\ i \in DOMAIN built
                                /\ built[i].row = built[j].row
                                /\ out.entries[i] = built[i].m}) = built[j].of

----------------------------------------------------------------------------
(* C5: the core fields of a fan-out.  As claimed: every entry built from   *)
(* an Exer and Hold or Sale row carries, for each core key the header row  *)
(* labels a column with, the primary row's value in that column.  This     *)
(* fails when a label of the details sub-table is a core key.              *)

C5_CoreFieldsOfPrimaryRow ==
    \A j \in DOMAIN built :
        PrimaryRow(built[j].row, FanOutActions) =>
            \A k \in Range(coreKeys) \cap Range(page.labels) :
                built[j].m[k] = PrimaryValue(built[j].row, k)

(* C5, amended: a core key that is a label of the details sub-table        *)
(* carries the value of the entry's own sub-row under that label; every    *)
(* other core key carries the primary row's value in the column the header *)
(* row labels with it, or in the first column if no column is so labelled. *)

C5_CoreFieldsUnlessDetailLabel ==
    \A j \in DOMAIN built :
        PrimaryRow(built[j].row, FanOutActions) =>
            \A k \in Range(coreKeys) :
                built[j].m[k] =
                    IF k \in Range(KindLabels(GroupAt(built[j].row).details))
                    THEN DetailValue(built[j].row, built[j].sub, k)
                    ELSE IF k \in Range(page.labels)
                    THEN PrimaryValue(built[j].row, k)
                    ELSE PrimaryValue(built[j].row, page.labels[1])

\* Two entries of one fan-out row that differ in the core key Date.
C5_Witness ==
    \E i, j \in DOMAIN built :
        /\ built[i].row = built[j].row
        /\ PrimaryRow(built[i].row, FanOutActions)
        /\ built[i].m["Date"] # built[j].m["Date"]

----------------------------------------------------------------------------
(* C6: cardinality enforcement.  When the details section of a Deposit or  *)
(* Forced Quick Sell row yields 0 or 2 or more mappings, classifying the   *)
(* row aborts the run, by log.Fatal whenever the primary row has a cell    *)
(* for every header label (a shorter row has panicked before its details   *)
(* were read), and an aborted run has written no output.                   *)

----------------------------------------------------------------------------
(* C7: an unknown Action aborts.  A page whose history table holds a row   *)
(* with an Action outside the seven known ones never gets output written.  *)
(* The code violates it: the row after a Journal row is consumed unread.   *)

C7_UnknownActionAborts ==
    (page.kind = "history" /\ \E g \in DOMAIN page.groups : page.groups[g].action \notin Actions)
        => ~out.written

----------------------------------------------------------------------------
(* C8: structural failures are fatal.  Classifying the primary row of an   *)
(* Action that is followed by a details row, when the table has no row     *)
(* after it, aborts the run.  The code violates it for Journal: the failed *)
(* n.Sibling("tr") of line 445 only ends the loop.                         *)

DetailActions == Coalesced \cup FanOutActions \cup {"Journal"}

C8_MissingDetailsRowAborts ==
    [][(/\ pc = "body"
        /\ PrimaryRow(n.Node, DetailActions)
        /\ RowIndex(n.Node) = LastRowIndex)
       => pc' \in Aborted]_vars

----------------------------------------------------------------------------
(* C9: Journal and Forced Disbursement.  Classifying a Journal row leaves  *)
(* the cursor on the second row after it, a Forced Disbursement row on the *)
(* row right after it (the loop ends if there is no such row), and neither *)
(* changes the ledger: l.entries and l.e stay as they were.                *)

\* The next iteration starts at the k-th child of the table body.
NextIterationAt(k) ==
    IF k <= LastRowIndex
    THEN pc' = "body" /\ n'.Node = Append(Parent(n.Node), k)
    ELSE pc' = "output"

C9_JournalAndForcedDisbursement ==
    [][/\ (pc = "body" /\ PrimaryRow(n.Node, {"Journal"}))
            => (NextIterationAt(RowIndex(n.Node) + 2) /\ l' = l)
       /\ (pc = "body" /\ PrimaryRow(n.Node, {"Forced Disbursement"}))
            => (NextIterationAt(RowIndex(n.Node) + 1) /\ l' = l)]_vars

\* A Journal row, its details row and a Deposit row: the loop stands on the
\* Deposit row, the ledger untouched.
C9_Witness ==
    /\ pc = "body"
    /\ Len(page.groups) = 2
    /\ page.groups[1] = Group("Journal", "full", "A1")
    /\ page.groups[2].action = "Deposit"
    /\ RowIndex(n.Node) = 5
    /\ l = ZeroLedger

----------------------------------------------------------------------------
(* The Ledger on its own: any sequence of Next and Write calls on the zero *)
(* Ledger, with keys and values from small sets.                           *)

\* Bound: the number of committed entries up to which Next is still called.
MaxEntries == 2

LedgerKeys == {"Date", "Price"}

LedgerVals == {"a", "b"}

InitLedger ==
    /\ page = Page("empty cell", <<>>, <<>>)
    /\ n = NewNode(<<>>)
    /\ headerVals = <<>>
    /\ header = EmptyMap
    /\ l = ZeroLedger
    /\ out = NoOutput
    /\ pc = "ledger"
    /\ built = <<>>
    /\ call = NoCall

CallNext ==
    /\ pc = "ledger"
    /\ Len(l.entries) < MaxEntries
    /\ l' = LedgerNext(l)
    /\ UNCHANGED <<page, n, headerVals, header, out, pc, built, call>>

CallWrite ==
    /\ pc = "ledger"
    /\ \E k \in LedgerKeys, v \in LedgerVals :
          IF WriteToNil(l)
          THEN pc' = "panic" /\ l' = l
          ELSE pc' = pc /\ l' = LedgerWrite(l, k, v)
    /\ UNCHANGED <<page, n, headerVals, header, out, built, call>>

NextLedger == CallNext \/ CallWrite

SpecLedger == InitLedger /\ [][NextLedger]_vars

----------------------------------------------------------------------------
(* C10: ledger non-emptiness.  After any sequence of Next and Write calls  *)
(* every entry of l.entries has at least one key; Next appends the entry   *)
(* in progress only if it has a key, and always leaves a fresh empty one.  *)

C10_NoEmptyEntryCommitted ==
    /\ [](\A i \in DOMAIN l.entries : DOMAIN l.entries[i] # {})
    /\ [][CallNext =>
            /\ l'.e = <<EmptyMap>>
            /\ l'.entries = (IF l.e # <<>> /\ DOMAIN l.e[1] # {}
                             THEN Append(l.entries, l.e[1])
                             ELSE l.entries)]_vars

\* Two entries committed, each with a key, and a fresh entry in progress.
C10_Witness ==
    /\ pc = "ledger"
    /\ Len(l.entries) = 2
    /\ l.e = <<EmptyMap>>

----------------------------------------------------------------------------
(* The cursor on its own: a client that, like main (lines 330-331), makes  *)
(* a cursor on the root of a tree, calls Child first, and from then on     *)
(* calls Sibling, Child, ChildText, Text, Push and Pop in any order.       *)

\* Bound: the number of outstanding checkpoints up to which Push is called.
MaxDepth == 1

CursorTags == {"tr", "td", "label"}


Called(op, tag, ret) == [op |-> op, tag |-> tag, ret |-> ret]

InitCursor ==
    /\ page = Page("cursor", <<>>, <<>>)
    /\ n = NewNode(<<>>)
    /\ headerVals = <<>>
    /\ header = EmptyMap
    /\ l = ZeroLedger
    /\ out = NoOutput
    /\ pc = "new"
    /\ built = <<>>
    /\ call = NoCall

CallChild ==
    /\ pc \in {"new", "cursor"}
    /\ \E tag \in CursorTags :
          /\ n' = Child(doc, n, tag)
          /\ call' = Called("Child", tag, <<>>)
    /\ pc' = "cursor"
    /\ UNCHANGED <<page, headerVals, header, l, out, built>>

CallSibling ==
    /\ pc = "cursor"
    /\ \E tag \in CursorTags :
          /\ n' = Sibling(doc, n, tag)
          /\ call' = Called("Sibling", tag, <<>>)
    /\ UNCHANGED <<page, headerVals, header, l, out, pc, built>>

CallChildText ==
    /\ pc = "cursor"
    /\ call' = Called("ChildText", "", ChildText(doc, n))
    /\ UNCHANGED <<page, n, headerVals, header, l, out, pc, built>>

CallText ==
    /\ pc = "cursor"
    /\ call' = Called("Text", "", Text(doc, n))
    /\ UNCHANGED <<page, n, headerVals, header, l, out, pc, built>>

CallPush ==
    /\ pc = "cursor"
    /\ Depth(n) < MaxDepth
    /\ n' = Push(n)
    /\ call' = Called("Push", "", <<>>)
    /\ UNCHANGED <<page, headerVals, header, l, out, pc, built>>

\* *n = *n.stack: with no saved copy, a nil pointer dereference.
CallPop ==
    /\ pc = "cursor"
    /\ call' = Called("Pop", "", <<>>)
    /\ IF n.stack = <<>>
       THEN pc' = "panic" /\ n' = n
       ELSE pc' = pc /\ n' = Pop(n)
    /\ UNCHANGED <<page, headerVals, header, l, out, built>>

NextCursor == CallChild \/ CallSibling \/ CallChildText \/ CallText \/ CallPush \/ CallPop

SpecCursor == InitCursor /\ [][NextCursor]_vars

----------------------------------------------------------------------------
(* C11: sticky error.  With the cursor's error set, Child and Sibling      *)
(* leave the cursor (current node, next pointer, error) as it is,          *)
(* ChildText and Text return the empty string, and no call but Pop changes *)
(* the error: the first error is never replaced.                           *)

C11_StickyError ==
    [][n.err # "" =>
        /\ call'.op \in {"Child", "Sibling"} => n' = n
        /\ call'.op \in {"ChildText", "Text"} => (call'.ret = <<>> /\ n' = n)
        /\ call'.op # "Pop" => n'.err = n.err]_vars

\* Sibling("tr") was called with the error of a failed search for td set.
C11_Witness ==
    /\ pc = "cursor"
    /\ call = Called("Sibling", "tr", <<>>)
    /\ n.err = "no sibling tag td"

----------------------------------------------------------------------------
(* row, more and more1 on their own: one of them is called with the cursor *)
(* anywhere in a page, with or without an error set and with or without a  *)
(* saved checkpoint.                                                       *)

LookPages ==
    {Page("history", <<"Date", "Description", "Action", "Symbol", "Quantity">>, <<g>>) :
        g \in {Group("Deposit", "full", "A2"), Group("Lapse", "full", "B"),
               Group("Exer and Hold", "full", "X")}}

\* The paths of the nodes of t.
RECURSIVE Paths(_)
Paths(t) == {<<>>} \cup UNION {{<<i>> \o p : p \in Paths(t.kids[i])} : i \in DOMAIN t.kids}

\* The cursors a client can hold on t: without an error the current node is
\* not nil and next is its next sibling (on a new cursor, the root itself);
\* after a failed Sibling or Child, next is the next sibling or the node.
LookCursors(t) ==
    {[Node |-> p, next |-> q, err |-> e, stack |-> st, peak |-> Len(st)] :
        p \in Paths(t) \cup {Nil},
        q \in Paths(t) \cup {Nil},
        e \in {"", "no sibling tag td"},
        st \in {<<>>, <<NewNode(<<>>)>>}}

LookCursor(t, c) ==
    /\ c.err = "" => c.Node # Nil
    /\ \/ c.next = c.Node /\ (c.err # "" \/ c.Node = <<>>)
       \/ c.Node # Nil /\ c.next = NextSibling(t, c.Node)

InitLook ==
    /\ page \in LookPages
    /\ \E t \in {doc} :
          n \in {c \in LookCursors(t) : LookCursor(t, c)}
    /\ headerVals = <<>>
    /\ header = EmptyMap
    /\ l = ZeroLedger
    /\ out = NoOutput
    /\ pc = "look"
    /\ built = <<>>
    /\ call = NoCall

CallRow ==
    /\ pc = "look"
    /\ \E r \in {row(doc, n)} :
          /\ n' = r.n
          /\ call' = Called("row", "", [values |-> r.values, err |-> r.err])
    /\ UNCHANGED <<page, headerVals, header, l, out, pc, built>>

CallMore ==
    /\ pc = "look"
    /\ \E r \in {more(doc, n)} :
          /\ n' = r.n
          /\ call' = Called("more", "", [entries |-> r.entries, err |-> r.err])
    /\ UNCHANGED <<page, headerVals, header, l, out, pc, built>>

CallMore1 ==
    /\ pc = "look"
    /\ \E r \in {more1(doc, n)} :
          /\ n' = r.n
          /\ call' = Called("more1", "", [entries |-> r.entries, err |-> r.err])
    /\ UNCHANGED <<page, headerVals, header, l, out, pc, built>>

NextLook == CallRow \/ CallMore \/ CallMore1

SpecLook == InitLook /\ [][NextLook]_vars

----------------------------------------------------------------------------
(* C12: look-then-restore.  A call of row, more or more1 leaves the        *)
(* cursor's current node, next pointer, error and saved checkpoint exactly *)
(* as they were before the call, whether it returns a result or an error   *)
(* and whether or not the error was set on entry.                          *)

C12_LookThenRestore ==
    [][call'.op \in {"row", "more", "more1"} =>
        /\ n'.Node = n.Node
        /\ n'.next = n.next
        /\ n'.err = n.err
        /\ n'.stack = n.stack]_vars

\* more has returned two mappings to a client that holds a checkpoint.
C12_Witness ==
    /\ pc = "look"
    /\ call.op = "more"
    /\ call.ret.err = ""
    /\ Len(call.ret.entries) = 2
    /\ n.err = ""
    /\ n.stack # <<>>

----------------------------------------------------------------------------
(* C13: single-slot checkpoint discipline, as stated: each Push is         *)
(* followed by one Pop before the next Push, so the number of outstanding  *)
(* checkpoints never exceeds 1.                                            *)

C13_SingleSlot == n.peak <= 1

(* C13, amended: checkpoints nest.  row, more and more1 take a checkpoint  *)
(* on entry and further ones inside their loops while the first is still   *)
(* outstanding; at most 3 are outstanding at once, each Pop restores the   *)
(* most recent one, and none is outstanding between the calls main makes.  *)

C13_NestedCheckpoints ==
    /\ n.peak <= 3
    /\ Depth(n) = 0

\* A run reached the output step after three checkpoints were outstanding.
C13_Witness ==
    /\ pc = "done"
    /\ n.peak = 3
    /\ Depth(n) = 0

----------------------------------------------------------------------------
(* C14: forward sibling search.  Whenever a client that has descended with *)
(* Child holds a cursor with no error, next is the next sibling of the     *)
(* current node; a call of Sibling(tag) then moves to the first element    *)
(* with that tag among the siblings strictly after the current node, and   *)
(* fails, leaving the current node, when there is none.  The current node  *)
(* is never returned again and repeated calls move strictly forward.       *)

\* The siblings that follow the node at p, in the cursor's tree.
SiblingsAfter(p) ==
    IF p = <<>> \/ p = Nil THEN {}
    ELSE {Append(Parent(p), i) : i \in (p[Len(p)] + 1)..Len(NodeAt(doc, Parent(p)).kids)}

----------------------------------------------------------------------------
(* more on its own: it is called with the cursor on a details row of       *)
(* variant A whose header labels and sub-row widths are arbitrary.  The    *)
(* i-th cell of sub-row s holds the text SubValue(1, s, i).                *)

MaxHeaders == 3
MaxSubRows == 2
MaxCells == 3

MoreLabels == {"Price", "Shares", ""}

MorePages ==
    {Page("details", h, w) :
        h \in UNION {[1..k -> MoreLabels] : k \in 0..MaxHeaders},
        w \in UNION {[1..k -> 0..MaxCells] : k \in 0..MaxSubRows}}

InitMore ==
    /\ page \in MorePages
    /\ n = NewNode(<<>>)
    /\ headerVals = <<>>
    /\ header = EmptyMap
    /\ l = ZeroLedger
    /\ out = NoOutput
    /\ pc = "look"
    /\ built = <<>>
    /\ call = NoCall

NextMore == CallMore

SpecMore == InitMore /\ [][NextMore]_vars

\* The number of empty labels at the end of h.
Trailing(h) ==
    CHOOSE k \in 0..Len(h) :
        /\ \A i \in (Len(h) - k + 1)..Len(h) : h[i] = ""
        /\ k < Len(h) => h[Len(h) - k] # ""

\* H: the header labels of the page without the trailing empty ones.
Stripped == SubSeq(page.labels, 1, Len(page.labels) - Trailing(page.labels))

\* The sub-rows with at least `need` cells, in document order.
RowsWith(need) == SelectSeq([s \in DOMAIN page.groups |-> s], LAMBDA s : page.groups[s] >= need)

----------------------------------------------------------------------------
(* C15: variant A row acceptance, as stated: with H the header list after  *)
(* the trailing empty headers are stripped, the result of more holds one   *)
(* mapping for each sub-row with at least len(H) cells, in document order, *)
(* and the mapping of a sub-row assigns to each H[i] the text of the       *)
(* sub-row's i-th cell; shorter sub-rows add nothing and cause no error.   *)

C15_RowAcceptance ==
    call.op = "more" =>
        /\ call.ret.err = ""
        /\ Len(call.ret.entries) = Len(RowsWith(Len(Stripped)))
        /\ \A j \in DOMAIN call.ret.entries :
              /\ DOMAIN call.ret.entries[j] = Range(Stripped)
              /\ \A i \in DOMAIN Stripped :
                    call.ret.entries[j][Stripped[i]] =
                        SubValue(1, RowsWith(Len(Stripped))[j], i)

(* C15, amended: as above, but a label that heads several columns of H     *)
(* gets the text of the cell under the last of them.                       *)

C15_RowAcceptanceLastColumn ==
    call.op = "more" =>
        /\ call.ret.err = ""
        /\ Len(call.ret.entries) = Len(RowsWith(Len(Stripped)))
        /\ \A j \in DOMAIN call.ret.entries :
              /\ DOMAIN call.ret.entries[j] = Range(Stripped)
              /\ \A i \in DOMAIN Stripped :
                    (\A i2 \in DOMAIN Stripped : Stripped[i2] = Stripped[i] => i2 <= i) =>
                        call.ret.entries[j][Stripped[i]] =
                            SubValue(1, RowsWith(Len(Stripped))[j], i)

\* A short sub-row was dropped and the one after it, with more cells than H
\* has labels, was accepted.
C15_Witness ==
    /\ call.op = "more"
    /\ page.labels = <<"Price", "Shares", "">>
    /\ page.groups = <<1, 3>>
    /\ Len(call.ret.entries) = 1
    /\ call.ret.entries[1]["Shares"] = SubValue(1, 2, 2)

----------------------------------------------------------------------------
(* C16: trailing header stripping.  When the header row of a details       *)
(* sub-table ends with k >= 1 columns of empty label, a sub-row is         *)
(* accepted exactly when it has at least (header count - k) cells, and no  *)
(* mapping more produces has a key or a value taken from one of those k    *)
(* columns.                                                                *)

C16_TrailingStripped ==
    call.op = "more" /\ Trailing(page.labels) >= 1 =>
        LET need == Len(page.labels) - Trailing(page.labels)
        IN  /\ Len(call.ret.entries) = Len(RowsWith(need))
            /\ \A j \in DOMAIN call.ret.entries :
                  /\ DOMAIN call.ret.entries[j] = Range(SubSeq(page.labels, 1, need))
                  /\ \A k \in DOMAIN call.ret.entries[j] :
                        \A s \in DOMAIN page.groups : \A i \in (need + 1)..Len(page.labels) :
                            call.ret.entries[j][k] # SubValue(1, s, i)

\* Two trailing empty labels: a sub-row of one cell and one of three cells
\* were both accepted, each with the single key "Price".
C16_Witness ==
    /\ call.op = "more"
    /\ page.labels = <<"Price", "", "">>
    /\ page.groups = <<1, 3>>
    /\ Len(call.ret.entries) = 2
    /\ DOMAIN call.ret.entries[2] = {"Price"}

----------------------------------------------------------------------------
(* C17: forward single pass and termination.  An iteration of the row loop *)
(* either ends the run with a fatal error, or ends the loop and leads to   *)
(* the output step, or leaves the cursor on a top-level row strictly after *)
(* the one it classified.  The code violates it: an iteration can also end *)
(* in the run-time panic of an index out of range.                         *)

C17_ForwardPassTerminates ==
    [][pc = "body" =>
        /\ pc' \in {"body", "output", "fatal"}
        /\ pc' = "body" => RowIndex(n'.Node) > RowIndex(n.Node)]_vars

----------------------------------------------------------------------------
(* C18: no nil cursor dereference.  When the descent from the History      *)
(* anchor fails, the run ends with a fatal error and the current node that *)
(* main reads at line 339 is not nil.  The code violates it: Child on a    *)
(* node without children leaves the current node nil.                      *)

C18_NoNilDereference == [][pc = "descend" => pc' \in {"header", "fatal"}]_vars

----------------------------------------------------------------------------
(* C19: row indexing stays in range.  Classifying a data row never indexes *)
(* the row's values out of range.  The code violates it: the Action index, *)
(* the header indices and the core-key indices come from the header row    *)
(* and are used on rows with fewer cells.                                  *)

C19_RowIndexInRange ==
    [][pc = "body" =>
        \E t \in {doc} : \E r \in {row(t, n)} :
            r.err = "" =>
                /\ InRange(r.values, Lookup(header, "Action"))
                /\ pc' # "panic"]_vars

====
